---- MODULE Spec2Model ----
(***************************************************************************)
(* Model of the Greengrass Core SDK stub: stubs/src/greengrasssdk.c and    *)
(* its interface stubs/include/shared/greengrasssdk.h.                     *)
(*                                                                         *)
(* The library keeps no state of its own (greengrasssdk.c defines no       *)
(* global and no function writes through a pointer), so the state of the   *)
(* model is the calling program's: the locations it passes to the library  *)
(* as outputs, the record of the last completed call, and the history the  *)
(* interface contract speaks about (which handle was initialised or        *)
(* closed, whether a handler invocation is running and how it was           *)
(* answered, which queue-full policy was requested).                       *)
(***************************************************************************)
EXTENDS Integers, FiniteSets

VARIABLES
    ggreq,        \* caller's gg_request variable, the *ggreq of gg_request_init
    opts,         \* caller's gg_publish_options variable, the *opts of gg_publish_options_init
    buffer,       \* first byte of the caller's read buffer
    amount_read,  \* caller's size_t, the *amount_read of the read calls
    result,       \* caller's gg_request_result.request_status
    last,         \* the last completed SDK call: function, gg_error returned, opt flag
    hstate,       \* history of the handle held in ggreq, as the caller drives it
    inv,          \* whether the program is executing inside its lambda handler
    answer,       \* how the running handler invocation has been answered so far
    policy,       \* queue-full policy last requested on the options held in opts
    delivered     \* subscribed targets that have received a published message

vars == <<ggreq, opts, buffer, amount_read, result, last, hstate, inv, answer,
          policy, delivered>>

mem == <<ggreq, opts, buffer, amount_read, result>>

(***************************************************************************)
(* Bounds of the model.                                                    *)
(***************************************************************************)
MaxPtr == 1
MaxAmount == 1
MaxByte == 1
MaxTarget == 2

(***************************************************************************)
(* greengrasssdk.h enumerations.                                           *)
(***************************************************************************)
GGE_SUCCESS == 0
GGE_OUT_OF_MEMORY == 1
GGE_INVALID_PARAMETER == 2
GGE_INVALID_STATE == 3
GGE_INTERNAL_FAILURE == 4
GGE_TERMINATE == 5

GG_REQUEST_SUCCESS == 0
GG_REQUEST_HANDLED == 1
GG_REQUEST_UNHANDLED == 2
GG_REQUEST_UNKNOWN == 3
GG_REQUEST_AGAIN == 4

GG_RT_OPT_ASYNC == 1

GG_QUEUE_FULL_POLICY_BEST_EFFORT == 0
GG_QUEUE_FULL_POLICY_ALL_OR_ERROR == 1
GG_QUEUE_FULL_POLICY_RESERVED_MAX == 2

GG_LOG_DEBUG == 1
GG_LOG_FATAL == 5

gg_error == {GGE_SUCCESS, GGE_OUT_OF_MEMORY, GGE_INVALID_PARAMETER,
             GGE_INVALID_STATE, GGE_INTERNAL_FAILURE, GGE_TERMINATE}

gg_request_status == {GG_REQUEST_SUCCESS, GG_REQUEST_HANDLED, GG_REQUEST_UNHANDLED,
                      GG_REQUEST_UNKNOWN, GG_REQUEST_AGAIN}

\* Values of the opaque pointer types gg_request and gg_publish_options; 0 is NULL.
Ptrs == 0..MaxPtr
Amounts == 0..MaxAmount
Bytes == 0..MaxByte
Targets == 1..MaxTarget
RuntimeOpts == {0, GG_RT_OPT_ASYNC}
PolicyArgs == {GG_QUEUE_FULL_POLICY_BEST_EFFORT, GG_QUEUE_FULL_POLICY_ALL_OR_ERROR,
               GG_QUEUE_FULL_POLICY_RESERVED_MAX}
LogLevels == {GG_LOG_DEBUG, GG_LOG_FATAL}
NoPolicy == -1

(***************************************************************************)
(* The 19 functions of greengrasssdk.c.  Each operator takes the call's    *)
(* arguments, with the current content of every location the call is given *)
(* a pointer to, and yields the gg_error returned together with the        *)
(* content of those locations after the call.                              *)
(***************************************************************************)
gg_global_init(opt) == [ret |-> GGE_SUCCESS]

gg_log(level, format) == [ret |-> GGE_SUCCESS]

gg_request_init(ggreq_v) == [ret |-> GGE_SUCCESS, ggreq |-> ggreq_v]

gg_request_close_nullcheck(h) ==
    [ret |-> IF h = 0 THEN GGE_INVALID_PARAMETER ELSE GGE_SUCCESS]

gg_request_close(h) == [ret |-> GGE_SUCCESS]

gg_request_read_eof(h, buffer_v, buffer_size, amount_read_v) ==
    [ret |-> GGE_SUCCESS, buffer |-> buffer_v, amount_read |-> 0]

gg_request_read(h, buffer_v, buffer_size, amount_read_v) ==
    [ret |-> GGE_SUCCESS, buffer |-> buffer_v, amount_read |-> amount_read_v]

gg_runtime_start(handler, opt) == [ret |-> GGE_SUCCESS]

gg_lambda_handler_read(buffer_v, buffer_size, amount_read_v) ==
    [ret |-> GGE_SUCCESS, buffer |-> buffer_v, amount_read |-> amount_read_v]

gg_lambda_handler_write_response(response, response_size) == [ret |-> GGE_SUCCESS]

gg_lambda_handler_write_error(error_message) == [ret |-> GGE_SUCCESS]

gg_get_secret_value(h, secret_id, version_id, version_stage, result_v) ==
    [ret |-> GGE_SUCCESS, result |-> result_v]

gg_invoke(h, invoke_opts, result_v) == [ret |-> GGE_SUCCESS, result |-> result_v]

gg_publish_options_init(opts_v) == [ret |-> GGE_SUCCESS, opts |-> opts_v]

gg_publish_options_free(o) == [ret |-> GGE_SUCCESS]

gg_publish_options_set_queue_full_policy(o, p) == [ret |-> GGE_SUCCESS]

gg_publish_with_options_nullcheck(h, topic, payload, payload_size, o, result_v) ==
    [ret |-> IF o = 0 THEN GGE_INVALID_PARAMETER ELSE GGE_SUCCESS,
     result |-> result_v, delivered |-> {}]

gg_publish_with_options(h, topic, payload, payload_size, o, result_v) ==
    [ret |-> GGE_SUCCESS, result |-> result_v, delivered |-> {}]

gg_publish(h, topic, payload, payload_size, result_v) ==
    [ret |-> GGE_SUCCESS, result |-> result_v, delivered |-> {}]

gg_get_thing_shadow(h, thing_name, result_v) ==
    [ret |-> GGE_SUCCESS, result |-> result_v]

gg_delete_thing_shadow(h, thing_name, result_v) ==
    [ret |-> GGE_SUCCESS, result |-> result_v]

gg_update_thing_shadow(h, thing_name, update_payload, result_v) ==
    [ret |-> GGE_SUCCESS, result |-> result_v]

FunctionNames ==
    {"gg_global_init", "gg_log", "gg_request_init", "gg_request_close",
     "gg_request_read", "gg_runtime_start", "gg_lambda_handler_read",
     "gg_lambda_handler_write_response", "gg_lambda_handler_write_error",
     "gg_get_secret_value", "gg_invoke", "gg_publish_options_init",
     "gg_publish_options_free", "gg_publish_options_set_queue_full_policy",
     "gg_publish_with_options", "gg_publish", "gg_get_thing_shadow",
     "gg_delete_thing_shadow", "gg_update_thing_shadow"}

Completed(fn, r) == [fn |-> fn, ret |-> r.ret, opt |-> 0]

(***************************************************************************)
(* Initial state: no call has been made.  The caller's locations hold      *)
(* whatever the caller (or nobody) put there.                              *)
(***************************************************************************)
Init ==
    /\ ggreq \in Ptrs
    /\ opts \in Ptrs
    /\ buffer \in Bytes
    /\ amount_read \in Amounts
    /\ result \in gg_request_status
    /\ last = [fn |-> "none", ret |-> GGE_SUCCESS, opt |-> 0]
    /\ hstate = "none"
    /\ inv = "idle"
    /\ answer = "none"
    /\ policy = NoPolicy
    /\ delivered = {}

(***************************************************************************)
(* One action per function: the call is made with arguments drawn from the *)
(* small sets above, the caller's locations take the content the function  *)
(* leaves in them, and the call is recorded in last.                       *)
(***************************************************************************)
GlobalInit ==
    \E opt \in {0, 1} :
        /\ last' = Completed("gg_global_init", gg_global_init(opt))
        /\ UNCHANGED <<mem, hstate, inv, answer, policy, delivered>>

Log ==
    \E level \in LogLevels :
        /\ last' = Completed("gg_log", gg_log(level, "fmt"))
        /\ UNCHANGED <<mem, hstate, inv, answer, policy, delivered>>

\* gg_request_init(&ggreq): from here on the caller treats the value in ggreq
\* as its request handle.
RequestInit ==
    LET r == gg_request_init(ggreq) IN
        /\ ggreq' = r.ggreq
        /\ last' = Completed("gg_request_init", r)
        /\ hstate' = IF r.ret = GGE_SUCCESS THEN "open" ELSE hstate
        /\ UNCHANGED <<opts, buffer, amount_read, result, inv, answer, policy, delivered>>

RequestClose(h) ==
    LET r == gg_request_close(h) IN
        /\ last' = Completed("gg_request_close", r)
        /\ hstate' = IF h = ggreq /\ hstate \in {"open", "check", "drained"}
                        /\ r.ret = GGE_SUCCESS
                     THEN "closed" ELSE hstate
        /\ UNCHANGED <<mem, inv, answer, policy, delivered>>

\* gg_request_read(h, &buffer, size, &amount_read).  A read of the open handle
\* is an iteration of the caller's "read till amount_read is zero" loop.
RequestRead(h) ==
    LET r == gg_request_read(h, buffer, 1, amount_read) IN
        /\ buffer' = r.buffer
        /\ amount_read' = r.amount_read
        /\ last' = Completed("gg_request_read", r)
        /\ hstate' = IF h = ggreq /\ hstate = "open" /\ r.ret = GGE_SUCCESS
                     THEN "check" ELSE hstate
        /\ UNCHANGED <<ggreq, opts, result, inv, answer, policy, delivered>>

\* The caller's loop test after a read: zero bytes read ends the loop.
LoopCheck ==
    /\ hstate = "check"
    /\ hstate' = IF amount_read = 0 THEN "drained" ELSE "open"
    /\ UNCHANGED <<mem, last, inv, answer, policy, delivered>>

RuntimeStart(opt) ==
    LET r == gg_runtime_start("handler", opt) IN
        /\ last' = [fn |-> "gg_runtime_start", ret |-> r.ret, opt |-> opt]
        /\ UNCHANGED <<mem, hstate, inv, answer, policy, delivered>>

\* The program enters its lambda handler (a gg_lambda_handler).  The stub never
\* calls the handler itself, so whoever runs it is the embedding program.
HandlerEnter ==
    /\ inv = "idle"
    /\ inv' = "active"
    /\ answer' = "none"
    /\ UNCHANGED <<mem, last, hstate, policy, delivered>>

HandlerExit ==
    /\ inv = "active"
    /\ inv' = "idle"
    /\ answer' = "none"
    /\ UNCHANGED <<mem, last, hstate, policy, delivered>>

HandlerRead ==
    LET r == gg_lambda_handler_read(buffer, 1, amount_read) IN
        /\ buffer' = r.buffer
        /\ amount_read' = r.amount_read
        /\ last' = Completed("gg_lambda_handler_read", r)
        /\ UNCHANGED <<ggreq, opts, result, hstate, inv, answer, policy, delivered>>

\* The first write that succeeds inside an invocation is its answer.
WriteResponse ==
    LET r == gg_lambda_handler_write_response("response", 1) IN
        /\ last' = Completed("gg_lambda_handler_write_response", r)
        /\ answer' = IF inv = "active" /\ answer = "none" /\ r.ret = GGE_SUCCESS
                     THEN "response" ELSE answer
        /\ UNCHANGED <<mem, hstate, inv, policy, delivered>>

WriteError ==
    LET r == gg_lambda_handler_write_error("bad input") IN
        /\ last' = Completed("gg_lambda_handler_write_error", r)
        /\ answer' = IF inv = "active" /\ answer = "none" /\ r.ret = GGE_SUCCESS
                     THEN "error" ELSE answer
        /\ UNCHANGED <<mem, hstate, inv, policy, delivered>>

GetSecretValue(h) ==
    LET r == gg_get_secret_value(h, "id", "version", "stage", result) IN
        /\ result' = r.result
        /\ last' = Completed("gg_get_secret_value", r)
        /\ UNCHANGED <<ggreq, opts, buffer, amount_read, hstate, inv, answer,
                       policy, delivered>>

Invoke(h) ==
    LET r == gg_invoke(h, "invoke_opts", result) IN
        /\ result' = r.result
        /\ last' = Completed("gg_invoke", r)
        /\ UNCHANGED <<ggreq, opts, buffer, amount_read, hstate, inv, answer,
                       policy, delivered>>

\* gg_publish_options_init(&opts): a fresh options object has no policy requested.
PublishOptionsInit ==
    LET r == gg_publish_options_init(opts) IN
        /\ opts' = r.opts
        /\ last' = Completed("gg_publish_options_init", r)
        /\ policy' = IF r.ret = GGE_SUCCESS THEN NoPolicy ELSE policy
        /\ UNCHANGED <<ggreq, buffer, amount_read, result, hstate, inv, answer, delivered>>

PublishOptionsFree(o) ==
    LET r == gg_publish_options_free(o) IN
        /\ last' = Completed("gg_publish_options_free", r)
        /\ policy' = IF o = opts /\ r.ret = GGE_SUCCESS THEN NoPolicy ELSE policy
        /\ UNCHANGED <<mem, hstate, inv, answer, delivered>>

PublishOptionsSetQueueFullPolicy(o, p) ==
    LET r == gg_publish_options_set_queue_full_policy(o, p) IN
        /\ last' = Completed("gg_publish_options_set_queue_full_policy", r)
        /\ policy' = IF o = opts /\ p < GG_QUEUE_FULL_POLICY_RESERVED_MAX
                        /\ r.ret = GGE_SUCCESS
                     THEN p ELSE policy
        /\ UNCHANGED <<mem, hstate, inv, answer, delivered>>

PublishWithOptions(h, o) ==
    LET r == gg_publish_with_options(h, "topic", "payload", 1, o, result) IN
        /\ result' = r.result
        /\ delivered' = r.delivered
        /\ last' = Completed("gg_publish_with_options", r)
        /\ UNCHANGED <<ggreq, opts, buffer, amount_read, hstate, inv, answer, policy>>

Publish(h) ==
    LET r == gg_publish(h, "topic", "payload", 1, result) IN
        /\ result' = r.result
        /\ delivered' = r.delivered
        /\ last' = Completed("gg_publish", r)
        /\ UNCHANGED <<ggreq, opts, buffer, amount_read, hstate, inv, answer, policy>>

GetThingShadow(h) ==
    LET r == gg_get_thing_shadow(h, "myThing", result) IN
        /\ result' = r.result
        /\ last' = Completed("gg_get_thing_shadow", r)
        /\ UNCHANGED <<ggreq, opts, buffer, amount_read, hstate, inv, answer,
                       policy, delivered>>

DeleteThingShadow(h) ==
    LET r == gg_delete_thing_shadow(h, "myThing", result) IN
        /\ result' = r.result
        /\ last' = Completed("gg_delete_thing_shadow", r)
        /\ UNCHANGED <<ggreq, opts, buffer, amount_read, hstate, inv, answer,
                       policy, delivered>>

UpdateThingShadow(h) ==
    LET r == gg_update_thing_shadow(h, "myThing", "update", result) IN
        /\ result' = r.result
        /\ last' = Completed("gg_update_thing_shadow", r)
        /\ UNCHANGED <<ggreq, opts, buffer, amount_read, hstate, inv, answer,
                       policy, delivered>>

\* Calls that take the request handle.
HandleScoped(h) ==
    \/ RequestClose(h)
    \/ RequestRead(h)
    \/ GetSecretValue(h)
    \/ Invoke(h)
    \/ Publish(h)
    \/ \E o \in Ptrs : PublishWithOptions(h, o)
    \/ GetThingShadow(h)
    \/ DeleteThingShadow(h)
    \/ UpdateThingShadow(h)

Next ==
    \/ GlobalInit
    \/ Log
    \/ RequestInit
    \/ \E h \in Ptrs : RequestClose(h)
    \/ \E h \in Ptrs : RequestRead(h)
    \/ LoopCheck
    \/ \E opt \in RuntimeOpts : RuntimeStart(opt)
    \/ HandlerEnter
    \/ HandlerExit
    \/ HandlerRead
    \/ WriteResponse
    \/ WriteError
    \/ \E h \in Ptrs : GetSecretValue(h)
    \/ \E h \in Ptrs : Invoke(h)
    \/ PublishOptionsInit
    \/ \E o \in Ptrs : PublishOptionsFree(o)
    \/ \E o \in Ptrs, p \in PolicyArgs : PublishOptionsSetQueueFullPolicy(o, p)
    \/ \E h \in Ptrs, o \in Ptrs : PublishWithOptions(h, o)
    \/ \E h \in Ptrs : Publish(h)
    \/ \E h \in Ptrs : GetThingShadow(h)
    \/ \E h \in Ptrs : DeleteThingShadow(h)
    \/ \E h \in Ptrs : UpdateThingShadow(h)

Spec == Init /\ [][Next]_vars

(***************************************************************************)
(* The program of the documented read loop alone: initialise the handle,   *)
(* read "till amount_read is zero", close, and start over.  The caller is  *)
(* a sequential program that keeps running, hence the weak fairness.       *)
(***************************************************************************)
ReadLoopNext ==
    \/ (hstate \in {"none", "closed"} /\ RequestInit)
    \/ (hstate = "open" /\ RequestRead(ggreq))
    \/ LoopCheck
    \/ (hstate = "drained" /\ RequestClose(ggreq))

ReadLoopSpec == Init /\ [][ReadLoopNext]_vars /\ WF_vars(ReadLoopNext)

(***************************************************************************)
(* Claims.                                                                 *)
(***************************************************************************)

\* C1: once gg_request_close has been called on the handle obtained from
\* gg_request_init, every later handle-scoped call on that handle (read, a
\* second close, or a request-issuing call) returns GGE_INVALID_STATE.
C1_ClosedHandleRejected ==
    [][(hstate = "closed" /\ ggreq # 0 /\ HandleScoped(ggreq))
          => last'.ret = GGE_INVALID_STATE]_vars

\* C2: a caller that keeps reading an open handle eventually sees a read that
\* returns GGE_SUCCESS with *amount_read = 0 (the loop ends), and a
\* gg_request_close of the handle afterwards succeeds.
C2_ReadLoopDrains ==
    /\ (hstate = "open") ~> (hstate = "drained" /\ last.ret = GGE_SUCCESS
                               /\ amount_read = 0)
    /\ [][(hstate = "drained" /\ RequestClose(ggreq)) => last'.ret = GGE_SUCCESS]_vars

\* C3: within one handler invocation, after gg_lambda_handler_write_response or
\* gg_lambda_handler_write_error has succeeded, any further call of either
\* returns GGE_INVALID_STATE.
C3_SecondWriteRejected ==
    [][(inv = "active" /\ answer # "none" /\ (WriteResponse \/ WriteError))
          => last'.ret = GGE_INVALID_STATE]_vars

\* C4: gg_lambda_handler_read, gg_lambda_handler_write_response and
\* gg_lambda_handler_write_error return GGE_INVALID_STATE when called while no
\* handler invocation is active.
C4_HandlerCallsOutsideInvocationRejected ==
    [][(inv = "idle" /\ (HandlerRead \/ WriteResponse \/ WriteError))
          => last'.ret = GGE_INVALID_STATE]_vars

\* C5: when the handler has answered the invocation with
\* gg_lambda_handler_write_error, the invoker's gg_invoke completes with
\* result->request_status = GG_REQUEST_HANDLED.
C5_WriteErrorYieldsHandled ==
    [][(answer = "error" /\ hstate = "open" /\ ggreq # 0 /\ Invoke(ggreq))
          => result' = GG_REQUEST_HANDLED]_vars

\* C6: a gg_publish_with_options whose options carry
\* GG_QUEUE_FULL_POLICY_ALL_OR_ERROR either delivers to every target with
\* request_status GG_REQUEST_SUCCESS or to no target with GG_REQUEST_AGAIN.
C6_AllOrErrorAtomic ==
    [][(policy = GG_QUEUE_FULL_POLICY_ALL_OR_ERROR /\ opts # 0 /\ hstate = "open"
          /\ ggreq # 0 /\ PublishWithOptions(ggreq, opts))
          => \/ (delivered' = Targets /\ result' = GG_REQUEST_SUCCESS)
             \/ (delivered' = {} /\ result' = GG_REQUEST_AGAIN)]_vars

\* C7: gg_publish(ggreq, topic, payload, size, result) returns the same
\* gg_error and leaves the same result and deliveries as
\* gg_publish_with_options(ggreq, topic, payload, size, NULL, result).
\* First for the values the two functions yield, then for every gg_publish step:
\* it leaves the state gg_publish_with_options with NULL options would leave.
C7_PublishIsPublishWithNullOptions ==
    /\ [](\A h \in Ptrs :
            gg_publish(h, "topic", "payload", 1, result)
                = gg_publish_with_options(h, "topic", "payload", 1, 0, result))
    /\ [][\A h \in Ptrs :
            Publish(h) =>
                LET r == gg_publish_with_options(h, "topic", "payload", 1, 0, result) IN
                    /\ last'.ret = r.ret
                    /\ result' = r.result
                    /\ delivered' = r.delivered
                    /\ UNCHANGED <<ggreq, opts, buffer, amount_read, hstate, inv,
                                   answer, policy>>]_vars

C7_Witness ==
    /\ last.fn = "gg_publish"
    /\ last.ret = GGE_SUCCESS
    /\ result = GG_REQUEST_UNKNOWN

\* C8: gg_runtime_start called without GG_RT_OPT_ASYNC never returns to its
\* caller: no such call is ever a completed call.
C8_SyncStartNeverReturns ==
    ~(last.fn = "gg_runtime_start" /\ last.opt = 0)

\* C9: every function of greengrasssdk.c returns GGE_SUCCESS, for every
\* argument value and after any sequence of earlier calls.
C9_AlwaysSuccess ==
    last.fn \in FunctionNames => last.ret = GGE_SUCCESS

C9_Witness ==
    /\ last.fn = "gg_request_close"
    /\ last.ret = GGE_SUCCESS
    /\ hstate = "none"

\* C10: no function changes a caller-visible output location: *ggreq, *opts,
\* the read buffer, *amount_read and result->request_status hold after every
\* call what they held before it.
C10_OutputsUntouched ==
    [][UNCHANGED mem]_vars

C10_Witness ==
    /\ last.fn = "gg_request_read"
    /\ hstate = "open"
    /\ amount_read # 0

====
